---- MODULE Spec2Model ----
(***************************************************************************)
(* Model of the PDF ingestion pipeline of dsst_etl (upload_pdfs.py,        *)
(* models.py): the S3 upload, the content-addressed Document rows, the     *)
(* batch Provenance row, the initial Works and the relinking of documents. *)
(*                                                                         *)
(* The committed database is the three tables documents, works and         *)
(* provenance; a row's id is its position in the table (a serial key).     *)
(* Every session.commit() of the code is one atomic step of the model: the *)
(* unique index on documents.hash_data (models.py:42) makes the INSERT and *)
(* its COMMIT succeed for one session and raise IntegrityError in any      *)
(* other session that inserts the same hash_data.                          *)
(*                                                                         *)
(* Documents has no work_id column (models.py:38-45).  The assignments     *)
(* document.work_id = ... of upload_pdfs.py:152 and :167 set a plain       *)
(* attribute of the ORM instance; commit() writes nothing for it.  The     *)
(* variable work_id holds that attribute for the instances the application *)
(* references (its domain); an instance that is no longer referenced is    *)
(* dropped from the session's weak identity map, and the attribute with it.*)
(***************************************************************************)
EXTENDS Integers, Sequences, FiniteSets, TLC

\* ------------------------------------------------------------------ bounds

\* The longest directory listing a run uploads.
MaxFiles == 2

\* The upload_directory invocations of the model.
Runs == {"r1", "r2"}

\* Basenames of the PDF files, in the order the listing returns them.
NameOrder == <<"a.pdf", "a_copy.pdf", "b.pdf">>

Names == {NameOrder[k] : k \in 1..Len(NameOrder)}

\* File contents (byte strings).  c1 and c3 are different bytes with the
\* same MD5 digest; c2 has another digest.
Contents == {"c1", "c2", "c3"}

NoContent == "none"

\* ------------------------------------------------------------- pure helpers

\* hashlib.md5(file_content).hexdigest(): a digest of fixed width of contents
\* of any length, so not injective.
md5(content) ==
    CASE content = "c1" -> "d1"
      [] content = "c2" -> "d2"
      [] content = "c3" -> "d1"

\* s3_key = f"pdfs/{os.path.basename(pdf_path)}"
s3_key(name) == <<"pdfs", name>>

\* s3uri = f"s3://{self.bucket_name}/{s3_key}"
s3uri(name) == <<"s3", "bucket">> \o s3_key(name)

File == [name : Names, content : Contents]

Pos(name) == CHOOSE k \in 1..Len(NameOrder) : NameOrder[k] = name

\* The listings pdf_directory.glob("*.pdf") can return: files of one
\* directory, so with distinct basenames.
Listings ==
    {s \in UNION {[1..n -> File] : n \in 0..MaxFiles} :
        \A a, b \in 1..Len(s) : a < b => Pos(s[a].name) < Pos(s[b].name)}

Range(s) == {s[k] : k \in 1..Len(s)}

\* ------------------------------------------------------------------- state

VARIABLES
    s3,                 \* the bucket: key pdfs/<basename> -> stored bytes
    documents,          \* table documents (committed rows)
    works,              \* table works (committed rows)
    provenance,         \* table provenance (committed rows)
    work_id,            \* Documents.work_id attribute of the referenced instances
    pc,                 \* position of each run in upload_directory
    pdf_files,          \* upload_directory: pdf_files
    i,                  \* index of the loop a run is in
    successful_uploads, \* upload_pdfs: successful_uploads
    failed_uploads,     \* upload_pdfs: failed_uploads
    new_documents,      \* create_document_records: documents (ids of the rows)
    skipped,            \* files logged "already exists. Skipping."
    prov,               \* upload_directory: provenance (its id, 0 before)
    work,               \* initial_work_for_document: work (its id, 0 before)
    start,              \* table sizes when the run started
    oddpub_metrics,     \* table oddpub_metrics (committed rows)
    rtransparent_publication, \* table rtransparent_publication (committed rows)
    oddpub,             \* the call of OddpubWrapper.process_pdfs
    rtransparent,       \* the call of RTransparentDataUploader.upload_data
    output_csv,         \* extract_pdf_metadata: the file output_csv
    extract             \* extract_pdf_metadata: pdf_dir and the last call

vars == <<s3, documents, works, provenance, work_id, pc, pdf_files, i,
          successful_uploads, failed_uploads, new_documents, skipped, prov,
          work, start, oddpub_metrics, rtransparent_publication, oddpub,
          rtransparent, output_csv, extract>>

run_vars == <<pc, pdf_files, i, successful_uploads, failed_uploads,
              new_documents, skipped, prov, work, start>>

\* The state of the metrics uploaders and of the metadata extraction.
metrics_vars == <<oddpub_metrics, rtransparent_publication, oddpub,
                  rtransparent>>

extract_vars == <<output_csv, extract>>

\* The state of the PDF upload pipeline, but for the provenance table, which
\* OddpubWrapper writes too.
upload_vars == <<s3, documents, works, work_id, run_vars>>

Active == {"uploading", "recording", "provenance", "linking", "linked"}

\* output_csv.exists() is False.
NoFile == [exists |-> FALSE, rows |-> <<>>]

\* No call of process_pdfs yet.
NoCall ==
    [pc |-> "idle", pdf_folder |-> {}, output_folder |-> FALSE,
     stored |-> 0, result |-> 0, closed |-> FALSE, start |-> 0,
     failed |-> "none"]

\* No call of upload_data yet.
NoUpload ==
    [pc |-> "idle", data |-> <<>>, n_rows |-> 1, start |-> 0,
     commits |-> <<>>]

\* No call of extract_pdf_metadata yet, and an empty pdf_dir.
NoExtract ==
    [pdf_dir |-> {}, runs |-> 0, returned |-> "no call", processed |-> FALSE]

Init ==
    /\ s3 = [n \in Names |-> NoContent]
    /\ documents = <<>>
    /\ works = <<>>
    /\ provenance = <<>>
    /\ work_id = [d \in {} |-> 0]
    /\ pc = [r \in Runs |-> "idle"]
    /\ pdf_files = [r \in Runs |-> <<>>]
    /\ i = [r \in Runs |-> 1]
    /\ successful_uploads = [r \in Runs |-> <<>>]
    /\ failed_uploads = [r \in Runs |-> <<>>]
    /\ new_documents = [r \in Runs |-> <<>>]
    /\ skipped = [r \in Runs |-> <<>>]
    /\ prov = [r \in Runs |-> 0]
    /\ work = [r \in Runs |-> 0]
    /\ start = [r \in Runs |-> [documents |-> 0, works |-> 0, provenance |-> 0]]
    /\ oddpub_metrics = <<>>
    /\ rtransparent_publication = <<>>
    /\ oddpub = NoCall
    /\ rtransparent = NoUpload
    /\ output_csv = NoFile
    /\ extract = NoExtract

\* --------------------------------------------------------- database helpers

\* Mutant: hash_data without its unique index, no insert is refused.
UniqueViolation_NoIndex(rows, hash_data) == FALSE

\* Mutant: the index checks only the row inserted last.
UniqueViolation_LastRow(rows, hash_data) ==
    rows # <<>> /\ rows[Len(rows)].hash_data = hash_data

\* The unique index on documents.hash_data: the INSERT of a second row with
\* this hash raises IntegrityError.
UniqueViolation(rows, hash_data) ==
    \E k \in 1..Len(rows) : rows[k].hash_data = hash_data

\* Documents(hash_data=..., s3uri=...) as the committed row.
NewDocument(rows, file) ==
    [id |-> Len(rows) + 1,
     hash_data |-> md5(file.content),
     s3uri |-> s3uri(file.name),
     provenance_id |-> 0]

\* Provenance(pipeline_name="Document Upload", ...) as the committed row.
NewProvenance(rows) ==
    [id |-> Len(rows) + 1, pipeline_name |-> "Document Upload"]

\* Mutant: only the first document of the batch is stamped.
StampDocuments_FirstOnly(rows, ids, provenance_id) ==
    [k \in 1..Len(rows) |->
        IF rows[k].id \in ids /\ \A d \in ids : rows[k].id <= d
        THEN [rows[k] EXCEPT !.provenance_id = provenance_id]
        ELSE rows[k]]

\* for document in documents: document.provenance_id = provenance.id
StampDocuments(rows, ids, provenance_id) ==
    [k \in 1..Len(rows) |->
        IF rows[k].id \in ids
        THEN [rows[k] EXCEPT !.provenance_id = provenance_id]
        ELSE rows[k]]

\* Mutant: the Works row is built without its primary_document_id.
NewWork_NoPrimary(rows, document_id, provenance_id) ==
    [id |-> Len(rows) + 1,
     initial_document_id |-> document_id,
     primary_document_id |-> 0,
     provenance_id |-> provenance_id]

\* Works(initial_document_id=document.id, primary_document_id=document.id,
\*       provenance_id=provenance.id) as the committed row.
NewWork(rows, document_id, provenance_id) ==
    [id |-> Len(rows) + 1,
     initial_document_id |-> document_id,
     primary_document_id |-> document_id,
     provenance_id |-> provenance_id]

\* document.work_id = work.id on the instance `document` the caller passed.
SetWorkId(attrs, document_id, id) ==
    [d \in DOMAIN attrs |-> IF d = document_id THEN id ELSE attrs[d]]

\* Mutant: a document that already has this work_id is unlinked.
LinkDocuments_Toggle(attrs, rows, document_ids, id) ==
    [d \in DOMAIN attrs |->
        IF d \in document_ids /\ d \in 1..Len(rows)
        THEN (IF attrs[d] = id THEN 0 ELSE id)
        ELSE attrs[d]]

\* The loop of link_documents_to_work.  session.get returns the instance of
\* an existing row; the assignment stays only on an instance the application
\* references, any other instance is dropped when the loop moves on.
LinkDocuments(attrs, rows, document_ids, id) ==
    [d \in DOMAIN attrs |->
        IF d \in document_ids /\ d \in 1..Len(rows) THEN id ELSE attrs[d]]

\* A new instance the application references: it has no work_id yet.
Referenced(attrs, document_id) ==
    [d \in DOMAIN attrs \cup {document_id} |->
        IF d \in DOMAIN attrs THEN attrs[d] ELSE 0]

\* ------------------------------------------------------------ upload_pdfs

\* Mutant: the append to successful_uploads is not skipped by the exception.
UploadedTo_Always(successful, file, uploaded) == Append(successful, file)

\* One iteration of the loop of upload_pdfs; uploaded is whether
\* s3_client.upload_file returned (TRUE) or raised (FALSE).
UploadedTo(successful, file, uploaded) ==
    IF uploaded THEN Append(successful, file) ELSE successful

\* Mutant: the except branch logs the error and records nothing.
FailedTo_Dropped(failed, file, uploaded) == failed

FailedTo(failed, file, uploaded) ==
    IF uploaded THEN failed ELSE Append(failed, file)

\* upload_directory after upload_pdfs: "if successful_uploads:".
AfterUploads(successful) ==
    IF successful # <<>> THEN "recording" ELSE "done"

\* Mutant: upload_directory without its "if not documents: return".
AfterRecords_NoReturn(created) == "provenance"

\* upload_directory after create_document_records: "if not documents: return".
AfterRecords(created) ==
    IF created = <<>> THEN "done" ELSE "provenance"

\* upload_directory(pdf_directory_path): the listing; "if not pdf_files: return".
StartBatch(r, files) ==
    /\ pc[r] = "idle"
    /\ pdf_files' = [pdf_files EXCEPT ![r] = files]
    /\ pc' = [pc EXCEPT ![r] = IF files = <<>> THEN "done" ELSE "uploading"]
    /\ start' = [start EXCEPT ![r] = [documents |-> Len(documents),
                                      works |-> Len(works),
                                      provenance |-> Len(provenance)]]
    /\ UNCHANGED <<metrics_vars, extract_vars>>
    /\ UNCHANGED <<s3, documents, works, provenance, work_id, i,
                   successful_uploads, failed_uploads, new_documents,
                   skipped, prov, work>>

UploadOne(r, uploaded) ==
    /\ pc[r] = "uploading"
    /\ i[r] <= Len(pdf_files[r])
    /\ LET file == pdf_files[r][i[r]]
           successful == UploadedTo(successful_uploads[r], file, uploaded)
           last == i[r] = Len(pdf_files[r])
       IN  /\ s3' = IF uploaded
                    THEN [s3 EXCEPT ![file.name] = file.content]
                    ELSE s3
           /\ successful_uploads' = [successful_uploads EXCEPT ![r] = successful]
           /\ failed_uploads' =
                [failed_uploads EXCEPT
                    ![r] = FailedTo(failed_uploads[r], file, uploaded)]
           /\ i' = [i EXCEPT ![r] = IF last THEN 1 ELSE i[r] + 1]
           /\ pc' = [pc EXCEPT
                        ![r] = IF last THEN AfterUploads(successful)
                               ELSE "uploading"]
    /\ UNCHANGED <<metrics_vars, extract_vars>>
    /\ UNCHANGED <<documents, works, provenance, work_id, pdf_files,
                   new_documents, skipped, prov, work, start>>

\* One iteration of the loop of create_document_records: add + commit, or
\* IntegrityError + rollback.
RecordOne(r) ==
    /\ pc[r] = "recording"
    /\ i[r] <= Len(successful_uploads[r])
    /\ LET file == successful_uploads[r][i[r]]
           document == NewDocument(documents, file)
           dup == UniqueViolation(documents, document.hash_data)
           created == IF dup THEN new_documents[r]
                      ELSE Append(new_documents[r], document.id)
           last == i[r] = Len(successful_uploads[r])
       IN  /\ documents' = IF dup THEN documents ELSE Append(documents, document)
           /\ work_id' = IF dup THEN work_id ELSE Referenced(work_id, document.id)
           /\ new_documents' = [new_documents EXCEPT ![r] = created]
           /\ skipped' = [skipped EXCEPT
                            ![r] = IF dup THEN Append(skipped[r], file)
                                   ELSE skipped[r]]
           /\ i' = [i EXCEPT ![r] = IF last THEN 1 ELSE i[r] + 1]
           /\ pc' = [pc EXCEPT
                        ![r] = IF last THEN AfterRecords(created)
                               ELSE "recording"]
    /\ UNCHANGED <<metrics_vars, extract_vars>>
    /\ UNCHANGED <<s3, works, provenance, pdf_files, successful_uploads,
                   failed_uploads, prov, work, start>>

\* Mutant: the batch takes over the newest Provenance row, rewriting its
\* pipeline_name, and adds a row only to an empty table.
CreateProvenance_Reuse(r) ==
    /\ pc[r] = "provenance"
    /\ LET record == IF provenance = <<>> THEN NewProvenance(provenance)
                     ELSE [provenance[Len(provenance)] EXCEPT
                              !.pipeline_name = "Document Upload"]
       IN  /\ provenance' = IF provenance = <<>> THEN <<record>>
                            ELSE [provenance EXCEPT ![Len(provenance)] = record]
           /\ documents' = StampDocuments(documents, Range(new_documents[r]),
                                          record.id)
           /\ prov' = [prov EXCEPT ![r] = record.id]
    /\ pc' = [pc EXCEPT ![r] = "linking"]
    /\ UNCHANGED <<metrics_vars, extract_vars>>
    /\ UNCHANGED <<s3, works, work_id, pdf_files, i, successful_uploads,
                   failed_uploads, new_documents, skipped, work, start>>

\* create_provenance_record: add, flush, stamp the documents, one commit.
CreateProvenance(r) ==
    /\ pc[r] = "provenance"
    /\ LET record == NewProvenance(provenance)
       IN  /\ provenance' = Append(provenance, record)
           /\ documents' = StampDocuments(documents, Range(new_documents[r]),
                                          record.id)
           /\ prov' = [prov EXCEPT ![r] = record.id]
    /\ pc' = [pc EXCEPT ![r] = "linking"]
    /\ UNCHANGED <<metrics_vars, extract_vars>>
    /\ UNCHANGED <<s3, works, work_id, pdf_files, i, successful_uploads,
                   failed_uploads, new_documents, skipped, work, start>>

\* initial_work_for_document, lines 144-150: the Works row and its commit.
AddWork(r) ==
    /\ pc[r] = "linking"
    /\ LET row == NewWork(works, new_documents[r][i[r]], prov[r])
       IN  /\ works' = Append(works, row)
           /\ work' = [work EXCEPT ![r] = row.id]
    /\ pc' = [pc EXCEPT ![r] = "linked"]
    /\ UNCHANGED <<metrics_vars, extract_vars>>
    /\ UNCHANGED <<s3, documents, provenance, work_id, pdf_files, i,
                   successful_uploads, failed_uploads, new_documents,
                   skipped, prov, start>>

\* Mutant: the loop of upload_directory ends after the first document.
AssignWork_First(r) ==
    /\ pc[r] = "linked"
    /\ work_id' = SetWorkId(work_id, new_documents[r][i[r]], work[r])
    /\ i' = [i EXCEPT ![r] = 1]
    /\ pc' = [pc EXCEPT ![r] = "done"]
    /\ UNCHANGED <<metrics_vars, extract_vars>>
    /\ UNCHANGED <<s3, documents, works, provenance, pdf_files,
                   successful_uploads, failed_uploads, new_documents,
                   skipped, prov, work, start>>

\* initial_work_for_document, lines 152-154: the attribute and the second
\* commit, then the next document of the loop in upload_directory.
AssignWork(r) ==
    /\ pc[r] = "linked"
    /\ work_id' = SetWorkId(work_id, new_documents[r][i[r]], work[r])
    /\ LET last == i[r] = Len(new_documents[r])
       IN  /\ i' = [i EXCEPT ![r] = IF last THEN 1 ELSE i[r] + 1]
           /\ pc' = [pc EXCEPT ![r] = IF last THEN "done" ELSE "linking"]
    /\ UNCHANGED <<metrics_vars, extract_vars>>
    /\ UNCHANGED <<s3, documents, works, provenance, pdf_files,
                   successful_uploads, failed_uploads, new_documents,
                   skipped, prov, work, start>>

\* Mutant: the exception undoes the batch, the documents table goes back to
\* its rows of the start of the run.
Raise_Rollback(r) ==
    /\ pc[r] \in {"recording", "provenance", "linking", "linked"}
    /\ pc' = [pc EXCEPT ![r] = "raised"]
    /\ documents' = SubSeq(documents, 1, start[r].documents)
    /\ UNCHANGED <<metrics_vars, extract_vars>>
    /\ UNCHANGED <<s3, works, provenance, work_id, pdf_files, i,
                   successful_uploads, failed_uploads, new_documents,
                   skipped, prov, work, start>>

\* An exception upload_directory does not catch: read_bytes or a commit
\* failing for another reason than the unique index.  The step's own
\* transaction is not committed; the run ends.
Raise(r) ==
    /\ pc[r] \in {"recording", "provenance", "linking", "linked"}
    /\ pc' = [pc EXCEPT ![r] = "raised"]
    /\ work_id' = IF pc[r] = "linked"
                  THEN SetWorkId(work_id, new_documents[r][i[r]], work[r])
                  ELSE work_id
    /\ UNCHANGED <<metrics_vars, extract_vars>>
    /\ UNCHANGED <<s3, documents, works, provenance, pdf_files, i,
                   successful_uploads, failed_uploads, new_documents,
                   skipped, prov, work, start>>

\* ------------------------------------------------- link_documents_to_work

Quiet == \A r \in Runs : pc[r] \notin Active

\* Mutant: the relink also makes the first linked document the initial
\* document of the Work.
Link_Reassign(document_ids, id) ==
    /\ Quiet
    /\ work_id' = LinkDocuments(work_id, documents, document_ids, id)
    /\ works' = [w \in 1..Len(works) |->
                    IF w = id /\ document_ids # {}
                    THEN [works[w] EXCEPT
                            !.initial_document_id =
                                CHOOSE d \in document_ids :
                                    \A e \in document_ids : d <= e]
                    ELSE works[w]]
    /\ UNCHANGED <<metrics_vars, extract_vars>>
    /\ UNCHANGED <<s3, documents, provenance, run_vars>>

\* Mutant: the relink consolidates, the first linked document becomes the
\* primary document of the Work.
Link_Consolidate(document_ids, id) ==
    /\ Quiet
    /\ work_id' = LinkDocuments(work_id, documents, document_ids, id)
    /\ works' = [w \in 1..Len(works) |->
                    IF w = id /\ document_ids # {}
                    THEN [works[w] EXCEPT
                            !.primary_document_id =
                                CHOOSE d \in document_ids :
                                    \A e \in document_ids : d <= e]
                    ELSE works[w]]
    /\ UNCHANGED <<metrics_vars, extract_vars>>
    /\ UNCHANGED <<s3, documents, provenance, run_vars>>

\* link_documents_to_work(document_ids, work_id) and its commit.
Link(document_ids, id) ==
    /\ Quiet
    /\ work_id' = LinkDocuments(work_id, documents, document_ids, id)
    /\ UNCHANGED <<metrics_vars, extract_vars>>
    /\ UNCHANGED <<s3, documents, works, provenance, run_vars>>

\* The application loads a Document (session.get, session.query).
Query(document_id) ==
    /\ Quiet
    /\ document_id \in 1..Len(documents)
    /\ document_id \notin DOMAIN work_id
    /\ work_id' = Referenced(work_id, document_id)
    /\ UNCHANGED <<metrics_vars, extract_vars>>
    /\ UNCHANGED <<s3, documents, works, provenance, run_vars>>

\* The application drops its last reference to a Document instance.
Release(document_id) ==
    /\ Quiet
    /\ document_id \in DOMAIN work_id
    /\ work_id' = [d \in DOMAIN work_id \ {document_id} |-> work_id[d]]
    /\ UNCHANGED <<metrics_vars, extract_vars>>
    /\ UNCHANGED <<s3, documents, works, provenance, run_vars>>

\* --------------------------------------------------------- specifications

Step(r) ==
    \/ \E uploaded \in BOOLEAN : UploadOne(r, uploaded)
    \/ RecordOne(r)
    \/ CreateProvenance(r)
    \/ AddWork(r)
    \/ AssignWork(r)

\* Batches one after the other and without faults: r1, then r2.
StartInTurn(r, files) ==
    /\ \/ r = "r1" /\ pc["r2"] = "idle"
       \/ r = "r2" /\ pc["r1"] = "done"
    /\ StartBatch(r, files)

Next ==
    \E r \in Runs :
        \/ \E files \in Listings : StartInTurn(r, files)
        \/ Step(r)

Spec == Init /\ [][Next]_vars

\* Two runs at the same time over the same directory; a run can fail.
StartTogether(files) ==
    /\ \A r \in Runs : pc[r] = "idle"
    /\ pdf_files' = [r \in Runs |-> files]
    /\ pc' = [r \in Runs |-> IF files = <<>> THEN "done" ELSE "uploading"]
    /\ UNCHANGED <<metrics_vars, extract_vars>>
    /\ UNCHANGED <<s3, documents, works, provenance, work_id, i,
                   successful_uploads, failed_uploads, new_documents,
                   skipped, prov, work, start>>

NextConcurrent ==
    \/ \E files \in Listings : StartTogether(files)
    \/ \E r \in Runs : Step(r) \/ Raise(r)

SpecConcurrent == Init /\ [][NextConcurrent]_vars

\* One batch, then relinking by an application that holds a session.
NextLink ==
    \/ \E files \in Listings : StartBatch("r1", files)
    \/ Step("r1")
    \/ Raise("r1")
    \/ \E ids \in SUBSET (1..(Len(documents) + 1)), id \in 0..(Len(works) + 1) :
          Link(ids, id)
    \/ \E d \in 1..Len(documents) : Query(d) \/ Release(d)

SpecLink == Init /\ [][NextLink]_vars

\* The basename in the key of an s3uri.
KeyName(uri) == uri[Len(uri)]

\* The objects a run has written: upload_pdfs puts each file that uploads
\* under the key of its basename.
BlobsOf(r) ==
    [n \in Names |->
        IF \E f \in Range(successful_uploads[r]) : f.name = n
        THEN (CHOOSE f \in Range(successful_uploads[r]) : f.name = n).content
        ELSE NoContent]

\* The listing of a directory that holds all three files, a.pdf, a_copy.pdf
\* and b.pdf, with whatever bytes.
FullListings ==
    {s \in [1..Len(NameOrder) -> File] :
        \A k \in 1..Len(NameOrder) : s[k].name = NameOrder[k]}

\* One batch over the directory of three files, without faults.
NextDirectory ==
    \/ \E files \in FullListings : StartBatch("r1", files)
    \/ Step("r1")

SpecDirectory == Init /\ [][NextDirectory]_vars

\* What upload_directory tells about a batch.  It returns None on every
\* path; the counts it logs are len(documents) ("Created N document
\* records", "... linked to N documents") and len(failed_uploads) ("Failed
\* to upload N files").
Reported(r) ==
    [document_records |-> Len(new_documents[r]),
     failed |-> Len(failed_uploads[r])]

\* upload_directory called again over the directory of the run that raised.
Restart ==
    /\ pc["r1"] = "raised"
    /\ StartBatch("r2", pdf_files["r1"])

\* A batch that can be interrupted by an exception, then run again to its
\* end over the same files.
NextRestart ==
    \/ \E files \in Listings : StartBatch("r1", files)
    \/ Step("r1")
    \/ Raise("r1")
    \/ Restart
    \/ Step("r2")

SpecRestart == Init /\ [][NextRestart]_vars


\* ------------------------------------------------------------ OddpubWrapper

MaxPdfs == 2

MaxMetrics == 2

\* The PDFs a folder can hold; oddpub names an article after its file.
Articles == 1..MaxPdfs

\* article of the row built from an empty data frame: result_dict is {}.
NoArticle == 0

\* df.to_dict("records")[0] if not df.empty else {}: the data frame has one
\* record per PDF of the folder, in the order of the files; the first one is
\* taken.
FirstRecord(pdf_folder) ==
    IF pdf_folder = {} THEN NoArticle
    ELSE CHOOSE a \in pdf_folder : \A b \in pdf_folder : a <= b

\* Provenance(pipeline_name="oddpub", ...) as the committed row.
OddpubProvenance(rows) == [id |-> Len(rows) + 1, pipeline_name |-> "oddpub"]

\* OddpubMetrics(article=..., provenance_id=provenance_id) as the committed
\* row.
NewOddpubMetrics(rows, article, provenance_id) ==
    [id |-> Len(rows) + 1, article |-> article, provenance_id |-> provenance_id]

\* The unique index on oddpub_metrics.article; NULL articles do not collide.
ArticleViolation(rows, article) ==
    /\ article # NoArticle
    /\ \E k \in 1..Len(rows) : rows[k].article = article

\* _cleanup_output_folder: shutil.rmtree raises when the folder is not there
\* or cannot be removed, and the exception is raised again.
CleanupRaises(output_folder, removable) == ~output_folder \/ ~removable

\* process_pdfs(pdf_folder, output_folder), line 121: made is whether mkdir
\* returned.  failed names the step of the try block that raised.
ProcessPdfs(pdf_folder, made) ==
    /\ oddpub.pc \in {"idle", "returned", "raised"}
    /\ Len(oddpub_metrics) < MaxMetrics
    /\ oddpub' = [pc |-> IF made THEN "workflow" ELSE "except",
                  pdf_folder |-> pdf_folder,
                  output_folder |-> made,
                  stored |-> 0,
                  result |-> 0,
                  closed |-> FALSE,
                  start |-> Len(oddpub_metrics),
                  failed |-> IF made THEN "none" ELSE "mkdir"]
    /\ UNCHANGED <<provenance, oddpub_metrics, rtransparent_publication,
                   rtransparent, upload_vars, extract_vars>>

\* Lines 124-126: _convert_pdfs, _load_pdf_text, _search_open_data with
\* _convert_r_result and the flush of the Provenance row; ok is whether all
\* of them returned.
Workflow(ok) ==
    /\ oddpub.pc = "workflow"
    /\ oddpub' = IF ok
                 THEN [oddpub EXCEPT !.pc = "store"]
                 ELSE [oddpub EXCEPT !.pc = "except", !.failed = "workflow"]
    /\ UNCHANGED <<provenance, oddpub_metrics, rtransparent_publication,
                   rtransparent, upload_vars, extract_vars>>

\* Mutant: the Provenance row is committed on its own, before the commit of
\* the OddpubMetrics row.
Store_ProvenanceFirst(ok) ==
    /\ oddpub.pc = "store"
    /\ LET record == OddpubProvenance(provenance)
           row == NewOddpubMetrics(oddpub_metrics,
                                   FirstRecord(oddpub.pdf_folder), record.id)
           committed == ok /\ ~ArticleViolation(oddpub_metrics, row.article)
       IN  /\ provenance' = Append(provenance, record)
           /\ oddpub_metrics' = IF committed THEN Append(oddpub_metrics, row)
                                ELSE oddpub_metrics
           /\ oddpub' = IF committed
                        THEN [oddpub EXCEPT !.pc = "cleanup",
                                            !.stored = row.id]
                        ELSE [oddpub EXCEPT !.pc = "except",
                                            !.failed = "commit"]
    /\ UNCHANGED <<rtransparent_publication, rtransparent, upload_vars,
                   extract_vars>>

\* Lines 129-130: add(result) and the commit of the transaction that holds
\* the flushed Provenance row and the OddpubMetrics row.
Store(ok) ==
    /\ oddpub.pc = "store"
    /\ LET record == OddpubProvenance(provenance)
           row == NewOddpubMetrics(oddpub_metrics,
                                   FirstRecord(oddpub.pdf_folder), record.id)
           committed == ok /\ ~ArticleViolation(oddpub_metrics, row.article)
       IN  /\ provenance' = IF committed THEN Append(provenance, record)
                            ELSE provenance
           /\ oddpub_metrics' = IF committed THEN Append(oddpub_metrics, row)
                                ELSE oddpub_metrics
           /\ oddpub' = IF committed
                        THEN [oddpub EXCEPT !.pc = "cleanup",
                                            !.stored = row.id]
                        ELSE [oddpub EXCEPT !.pc = "except",
                                            !.failed = "commit"]
    /\ UNCHANGED <<rtransparent_publication, rtransparent, upload_vars,
                   extract_vars>>

\* Lines 134-136: the cleanup of the try block, then "return result".
Cleanup(removable) ==
    /\ oddpub.pc = "cleanup"
    /\ oddpub' = IF CleanupRaises(oddpub.output_folder, removable)
                 THEN [oddpub EXCEPT !.pc = "except", !.failed = "cleanup"]
                 ELSE [oddpub EXCEPT !.pc = "finally",
                                     !.output_folder = FALSE,
                                     !.result = oddpub.stored]
    /\ UNCHANGED <<provenance, oddpub_metrics, rtransparent_publication,
                   rtransparent, upload_vars, extract_vars>>

\* Lines 137-139: the exception is logged and the transaction rolled back;
\* the function goes on to return None.
Except ==
    /\ oddpub.pc = "except"
    /\ oddpub' = [oddpub EXCEPT !.pc = "finally", !.result = 0]
    /\ UNCHANGED <<provenance, oddpub_metrics, rtransparent_publication,
                   rtransparent, upload_vars, extract_vars>>

\* Lines 140-144: the cleanup again, then db.close(); an exception of the
\* cleanup leaves process_pdfs in place of the return.
Finally(removable) ==
    /\ oddpub.pc = "finally"
    /\ oddpub' = IF CleanupRaises(oddpub.output_folder, removable)
                 THEN [oddpub EXCEPT !.pc = "raised"]
                 ELSE [oddpub EXCEPT !.pc = "returned",
                                     !.output_folder = FALSE,
                                     !.closed = TRUE]
    /\ UNCHANGED <<provenance, oddpub_metrics, rtransparent_publication,
                   rtransparent, upload_vars, extract_vars>>

\* ------------------------------------------------- RTransparentDataUploader

MaxRows == 3

MaxChunk == 4

\* _read_file(file_path): the rows of the input file, each one told from
\* the others by its position.
DataRows(n) == [k \in 1..n |-> k]

Min(a, b) == IF a <= b THEN a ELSE b

\* Mutant: the slice stops one row early.
Chunk_Short(data, first, n_rows) ==
    SubSeq(data, first + 1, Min(first + n_rows - 1, Len(data)))

\* data.iloc[start : start + n_rows]; a slice past the end is cut there.
Chunk(data, first, n_rows) ==
    SubSeq(data, first + 1, Min(first + n_rows, Len(data)))

\* RTransparentPublication(**row_dict) with work_id = None and
\* provenance_id = None, as the committed row.
NewPublication(id, row) ==
    [id |-> id, row |-> row, work_id |-> 0, provenance_id |-> 0]

\* bulk_save_objects(publications)
BulkSave(rows, chunk) ==
    [k \in 1..(Len(rows) + Len(chunk)) |->
        IF k <= Len(rows) THEN rows[k]
        ELSE NewPublication(k, chunk[k - Len(rows)])]

\* upload_data(file_path, n_rows), lines 38-41.
UploadData(data, n_rows) ==
    /\ rtransparent.pc = "idle"
    /\ rtransparent' = [pc |-> "chunks", data |-> data, n_rows |-> n_rows,
                        start |-> 0, commits |-> <<>>]
    /\ UNCHANGED <<provenance, oddpub_metrics, rtransparent_publication,
                   oddpub, upload_vars, extract_vars>>

\* One iteration of "for start in range(0, len(data), n_rows)": the rows of
\* the chunk, bulk_save_objects and the commit.
UploadChunk ==
    /\ rtransparent.pc = "chunks"
    /\ rtransparent.start < Len(rtransparent.data)
    /\ LET chunk == Chunk(rtransparent.data, rtransparent.start,
                          rtransparent.n_rows)
       IN  /\ rtransparent_publication' =
                 BulkSave(rtransparent_publication, chunk)
           /\ rtransparent' =
                 [rtransparent EXCEPT
                     !.start = rtransparent.start + rtransparent.n_rows,
                     !.commits = Append(rtransparent.commits, Len(chunk))]
    /\ UNCHANGED <<provenance, oddpub_metrics, oddpub, upload_vars,
                   extract_vars>>

\* The end of the range, line 71: db_session.close().
CloseSession ==
    /\ rtransparent.pc = "chunks"
    /\ rtransparent.start >= Len(rtransparent.data)
    /\ rtransparent' = [rtransparent EXCEPT !.pc = "closed"]
    /\ UNCHANGED <<provenance, oddpub_metrics, rtransparent_publication,
                   oddpub, upload_vars, extract_vars>>

\* The two metrics uploaders on one database.
NextMetrics ==
    \/ \E pdf_folder \in SUBSET Articles, made \in BOOLEAN :
          ProcessPdfs(pdf_folder, made)
    \/ \E ok \in BOOLEAN : Workflow(ok) \/ Store(ok)
    \/ \E removable \in BOOLEAN : Cleanup(removable) \/ Finally(removable)
    \/ Except
    \/ \E n \in 0..MaxRows, n_rows \in 1..MaxChunk :
          UploadData(DataRows(n), n_rows)
    \/ UploadChunk
    \/ CloseSession

SpecMetrics == Init /\ [][NextMetrics]_vars

\* No call of process_pdfs is under way.
OddpubAtRest == oddpub.pc \in {"idle", "returned", "raised"}

\* The operations that write the provenance table, run one at a time on one
\* database: an upload batch, relinks, and a call of process_pdfs before or
\* after them.
NextProvenance ==
    \/ \E files \in Listings : OddpubAtRest /\ StartBatch("r1", files)
    \/ Step("r1")
    \/ \E ids \in SUBSET (1..(Len(documents) + 1)), id \in 0..(Len(works) + 1) :
          OddpubAtRest /\ Link(ids, id)
    \/ \E pdf_folder \in SUBSET Articles, made \in BOOLEAN :
          Quiet /\ oddpub.pc = "idle" /\ ProcessPdfs(pdf_folder, made)
    \/ \E ok \in BOOLEAN : Workflow(ok) \/ Store(ok)
    \/ \E removable \in BOOLEAN : Cleanup(removable) \/ Finally(removable)
    \/ Except

SpecProvenance == Init /\ [][NextProvenance]_vars

\* ------------------------------------------------------ extract_pdf_metadata

MaxCalls == 3

\* identifier_type as written to and read from the CSV: "DOI" when pdf2doi
\* found one, "" when _extract_doi returned None.
IdentifierTypes == {"DOI", ""}

\* str(pdf.absolute()), the name column of a row.
Absolute(name) == <<"cwd", name>>

\* Path(row["name"]).relative_to(Path.cwd())
RelativeToCwd(path) == SubSeq(path, 2, Len(path))

\* pdf_dir.rglob("*.[pP][dD][fF]"): the paths start with pdf_dir as the
\* caller wrote it, relative to the working directory or absolute.
Glob(pdf_dir, relative) ==
    {IF relative THEN <<name>> ELSE Absolute(name) : name \in pdf_dir}

\* The file a path of the listing names.
FileOf(path) == path[Len(path)]

\* Lines 188-196: the paths of the rows whose identifier_type is "DOI".
PreviouslyFound(rows) ==
    {RelativeToCwd(rows[k].name) :
        k \in {j \in 1..Len(rows) : rows[j].identifier_type = "DOI"}}

\* _parse_pdfs for a call that continues (output_exists, new_run False).
RemainingPdfs(pdf_dir, relative, rows) ==
    Glob(pdf_dir, relative) \ PreviouslyFound(rows)

\* The loop of lines 288-292: one row per PDF of pdfs, appended to the rows
\* of the file; found is the identifier_type _extract_doi gives each file.
WriteRows(rows, pdfs, found) ==
    rows \o [k \in 1..Len(pdfs) |->
                [name |-> Absolute(FileOf(pdfs[k])),
                 identifier_type |-> found[FileOf(pdfs[k])]]]

\* list(pdfs) in an order: the files in the order of NameOrder.
Listed(pdfs) ==
    SelectSeq([k \in 1..Len(NameOrder) |->
                  IF \E q \in pdfs : FileOf(q) = NameOrder[k]
                  THEN CHOOSE q \in pdfs : FileOf(q) = NameOrder[k]
                  ELSE <<>>],
              LAMBDA q : q # <<>>)

\* A PDF file is put into pdf_dir between two calls.
AddPdf(name) ==
    /\ name \notin extract.pdf_dir
    /\ extract' = [extract EXCEPT !.pdf_dir = extract.pdf_dir \cup {name}]
    /\ UNCHANGED <<output_csv, provenance, metrics_vars, upload_vars>>

\* Every PDF of pdf_dir has a row in the CSV.
AllProcessed(pdf_dir, rows) ==
    \A name \in pdf_dir :
        \E k \in 1..Len(rows) : rows[k].name = Absolute(name)

\* extract_pdf_metadata(pdf_dir, output_csv) when output_csv does not exist:
\* the header and one row per PDF.
FirstRun(relative, found) ==
    /\ ~output_csv.exists
    /\ extract.runs < MaxCalls
    /\ output_csv' =
          [exists |-> TRUE,
           rows |-> WriteRows(<<>>, Listed(Glob(extract.pdf_dir, relative)),
                              found)]
    /\ extract' = [extract EXCEPT !.runs = extract.runs + 1,
                                  !.returned = "pdfs",
                                  !.processed = extract.pdf_dir = {}]
    /\ UNCHANGED <<provenance, metrics_vars, upload_vars>>

\* extract_pdf_metadata(pdf_dir, output_csv, new_run=False) when output_csv
\* exists: _parse_pdfs returns None, or the PDFs left are appended.
ContinueRun(relative, found) ==
    /\ output_csv.exists
    /\ extract.runs < MaxCalls
    /\ LET pdfs == RemainingPdfs(extract.pdf_dir, relative, output_csv.rows)
       IN  /\ output_csv' =
                 [output_csv EXCEPT
                     !.rows = WriteRows(output_csv.rows, Listed(pdfs), found)]
           /\ extract' =
                 [extract EXCEPT
                     !.runs = extract.runs + 1,
                     !.returned = IF pdfs = {} THEN "None" ELSE "pdfs",
                     !.processed = AllProcessed(extract.pdf_dir,
                                                output_csv.rows)]
    /\ UNCHANGED <<provenance, metrics_vars, upload_vars>>

\* extract_pdf_metadata(pdf_dir, output_csv, new_run=True) when output_csv
\* exists: FileExistsError.
RefusedRun ==
    /\ output_csv.exists
    /\ extract.runs < MaxCalls
    /\ extract' = [extract EXCEPT
                      !.runs = extract.runs + 1,
                      !.returned = "FileExistsError",
                      !.processed = AllProcessed(extract.pdf_dir,
                                                 output_csv.rows)]
    /\ UNCHANGED <<output_csv, provenance, metrics_vars, upload_vars>>

NextExtract ==
    \/ \E name \in Names : AddPdf(name)
    \/ \E relative \in BOOLEAN, found \in [Names -> IdentifierTypes] :
          FirstRun(relative, found) \/ ContinueRun(relative, found)
    \/ RefusedRun

SpecExtract == Init /\ [][NextExtract]_vars

\* ------------------------------------------------------------------ claims

Digests == {md5(c) : c \in Contents}

ContentsOf(files) == {files[k].content : k \in 1..Len(files)}

NamesOf(files) == {files[k].name : k \in 1..Len(files)}

\* Indexes of the committed documents rows with this hash_data.
RowsWithHash(hash_data) ==
    {k \in 1..Len(documents) : documents[k].hash_data = hash_data}

\* C1 (dedup idempotence): when the second ingestion has uploaded only files
\* whose bytes the first ingestion had uploaded, under whatever names, its
\* create_document_records returns no new document and each of these
\* contents has exactly one Document row.
C1_DedupIdempotence ==
    (/\ pc["r1"] = "done"
     /\ pc["r2"] \in {"provenance", "linking", "linked", "done"}
     /\ ContentsOf(successful_uploads["r2"])
            \subseteq ContentsOf(successful_uploads["r1"]))
    => /\ new_documents["r2"] = <<>>
       /\ \A c \in ContentsOf(successful_uploads["r2"]) :
              Cardinality(RowsWithHash(md5(c))) = 1

\* The second ingestion re-ingested bytes of the first under another name.
C1_Witness ==
    /\ pc["r1"] = "done"
    /\ pc["r2"] = "done"
    /\ successful_uploads["r2"] # <<>>
    /\ ContentsOf(successful_uploads["r2"])
           \subseteq ContentsOf(successful_uploads["r1"])
    /\ \E f \in Range(successful_uploads["r2"]) :
           f.name \notin NamesOf(successful_uploads["r1"])

\* C2 (unique hash_data): in every reachable state no two committed Document
\* rows have the same hash_data.
C2_UniqueHash ==
    \A a, b \in 1..Len(documents) :
        documents[a].hash_data = documents[b].hash_data => a = b

\* Two rows are committed and content was repeated inside a batch and across
\* batches.
C2_Witness ==
    /\ Len(documents) = 2
    /\ skipped["r1"] # <<>>
    /\ skipped["r2"] # <<>>

\* Digests of the files run r has put through create_document_records:
\* inserted, or skipped on the unique index.
Attempted(r) ==
    {md5(f.content) : f \in Range(skipped[r])}
        \cup {documents[d].hash_data : d \in Range(new_documents[r])}

\* The runs whose own insert of this hash_data was committed.
Winners(hash_data) ==
    {r \in Runs :
        \E d \in Range(new_documents[r]) : documents[d].hash_data = hash_data}

\* Run r takes a step of create_document_records, not ending in an
\* exception, on a file whose hash_data is already committed.
LoserStep(r) ==
    /\ pc[r] = "recording"
    /\ UniqueViolation(documents,
                       md5(successful_uploads[r][i[r]].content))
    /\ <<pc[r], i[r]>> # <<pc'[r], i'[r]>>
    /\ pc'[r] # "raised"

\* C3 (one winner): when both concurrent runs have inserted a Document of the
\* same hash_data, exactly one row of that hash is committed and exactly one
\* run created it; the step of the loser changes no table and no list of the
\* other run, logs the file as skipped, does not raise, and the loser goes
\* on with its next item.
C3_OneWinner ==
    /\ [](\A h \in Digests :
            (\A r \in Runs : h \in Attempted(r))
            => /\ Cardinality(RowsWithHash(h)) = 1
               /\ Cardinality(Winners(h)) = 1)
    /\ [][\A r \in Runs :
            LoserStep(r)
            => /\ documents' = documents
               /\ works' = works
               /\ provenance' = provenance
               /\ new_documents' = new_documents
               /\ skipped'[r] = Append(skipped[r], successful_uploads[r][i[r]])
               /\ \A q \in Runs \ {r} : skipped'[q] = skipped[q] /\ pc'[q] = pc[q]
               /\ IF i[r] < Len(successful_uploads[r])
                  THEN pc'[r] = "recording" /\ i'[r] = i[r] + 1
                  ELSE pc'[r] \in {"provenance", "done"}]_vars

\* While the winner is still running, the loser has skipped the winner's
\* hash and has then inserted a later item of its own.
C3_Witness ==
    \E r, q \in Runs :
        /\ r # q
        /\ pc[q] \in Active
        /\ \E f \in Range(skipped[r]), d \in Range(new_documents[q]) :
              /\ documents[d].hash_data = md5(f.content)
              /\ \E d2 \in Range(new_documents[r]) : d2 > d

\* Run r has returned and no later run has started.
JustDone(r) == pc[r] = "done" /\ (r = "r1" => pc["r2"] = "idle")

\* The contents ingested before run r started.
SeenBefore(r) ==
    IF r = "r2" THEN ContentsOf(successful_uploads["r1"]) ELSE {}

\* The hash_data of the rows committed before run r started.
HashesBefore(r) == {documents[k].hash_data : k \in 1..start[r].documents}

\* Run r added one Provenance row and one Document row per file, each
\* stamped with the id of that Provenance row.
OneProvenanceForAll(r) ==
    /\ Len(provenance) = start[r].provenance + 1
    /\ Len(documents) = start[r].documents + Len(pdf_files[r])
    /\ \A k \in (start[r].documents + 1)..Len(documents) :
           documents[k].provenance_id = provenance[Len(provenance)].id

\* C4 as stated (provenance cardinality over distinct contents): a batch of
\* N >= 1 files of pairwise distinct, previously unseen content whose
\* uploads all succeed adds one Provenance row and N Document rows that all
\* carry its id.
C4_DistinctContent ==
    \A r \in Runs :
        (/\ JustDone(r)
         /\ Len(pdf_files[r]) >= 1
         /\ failed_uploads[r] = <<>>
         /\ \A a, b \in 1..Len(pdf_files[r]) :
                pdf_files[r][a].content = pdf_files[r][b].content => a = b
         /\ ContentsOf(pdf_files[r]) \cap SeenBefore(r) = {})
        => OneProvenanceForAll(r)

\* C4 (provenance cardinality over distinct digests): a batch of N >= 1
\* files whose MD5 digests are pairwise distinct and not yet in documents,
\* and whose uploads all succeed, adds one Provenance row and N Document
\* rows that all carry its id.
C4_DistinctDigest ==
    \A r \in Runs :
        (/\ JustDone(r)
         /\ Len(pdf_files[r]) >= 1
         /\ failed_uploads[r] = <<>>
         /\ \A a, b \in 1..Len(pdf_files[r]) :
                md5(pdf_files[r][a].content) = md5(pdf_files[r][b].content)
                => a = b
         /\ \A f \in Range(pdf_files[r]) : md5(f.content) \notin HashesBefore(r))
        => OneProvenanceForAll(r)

\* A second batch of two files of new digests has been ingested after a
\* first batch that left rows.
C4_Witness ==
    /\ JustDone("r2")
    /\ start["r2"].documents >= 1
    /\ start["r2"].provenance = 1
    /\ Len(pdf_files["r2"]) >= 1
    /\ failed_uploads["r2"] = <<>>
    /\ Len(new_documents["r2"]) = Len(pdf_files["r2"])
    /\ Len(provenance) = 2

\* C5 (no-op batch): once its uploads are over, a batch in which the
\* hash_data of every uploaded file was already in documents has added no
\* Document, Work or Provenance row; create_document_records returns an
\* empty list and upload_directory returns without calling
\* create_provenance_record or initial_work_for_document.
C5_NoOpBatch ==
    \A r \in Runs :
        (/\ pc[r] \in {"recording", "provenance", "linking", "linked", "done"}
         /\ r = "r1" => pc["r2"] = "idle"
         /\ \A f \in Range(successful_uploads[r]) :
                md5(f.content) \in HashesBefore(r))
        => /\ Len(documents) = start[r].documents
           /\ Len(works) = start[r].works
           /\ Len(provenance) = start[r].provenance
           /\ new_documents[r] = <<>>
           /\ pc[r] \in {"recording", "done"}
           /\ prov[r] = 0
           /\ work[r] = 0

\* A batch of already ingested content has returned: every uploaded file
\* was skipped.
C5_Witness ==
    /\ pc["r2"] = "done"
    /\ Len(successful_uploads["r2"]) = MaxFiles
    /\ skipped["r2"] = successful_uploads["r2"]
    /\ \A f \in Range(successful_uploads["r2"]) :
           md5(f.content) \in HashesBefore("r2")

\* The documents of the batch for which initial_work_for_document returned.
Linked(r) ==
    CASE pc[r] \in {"linking", "linked"} -> i[r] - 1
      [] pc[r] = "done" -> Len(new_documents[r])
      [] OTHER -> 0

\* C6 (initial work linkage): after initial_work_for_document(document,
\* provenance) on a new Document, exactly one Work row has this document as
\* initial_document_id, its primary_document_id is the same document, its
\* provenance_id is provenance.id, document.work_id is the id of that Work,
\* and the call added one row to works.
C6_InitialWork ==
    \A r \in Runs :
        /\ \A k \in 1..Linked(r) :
              LET d == new_documents[r][k]
                  W == {w \in 1..Len(works) : works[w].initial_document_id = d}
              IN  /\ Cardinality(W) = 1
                  /\ \A w \in W :
                        /\ works[w].primary_document_id = d
                        /\ works[w].provenance_id = prov[r]
                        /\ d \in DOMAIN work_id
                        /\ work_id[d] = works[w].id
        /\ (pc[r] \in Active \/ JustDone(r))
           => Len(works) = start[r].works + Linked(r)
                             + (IF pc[r] = "linked" THEN 1 ELSE 0)

\* The second batch has linked its new document, with a work of the first
\* batch already in the table.
C6_Witness ==
    /\ pc["r2"] = "done"
    /\ Linked("r2") = 1
    /\ start["r2"].works >= 1
    /\ work_id[new_documents["r2"][1]] = Len(works)

\* The arguments link_documents_to_work is called with: ids of rows and one
\* id of no row; ids of works, none, and one id of no work.
LinkIds == SUBSET (1..(Len(documents) + 1))

LinkWorks == 0..(Len(works) + 1)

\* C7 (relink idempotence): after link_documents_to_work(document_ids,
\* work_id), a second call with the same arguments changes nothing: the
\* tables are as the first call left them (it writes none) and every
\* Document's work_id is what the first call set.
C7_RelinkIdempotent ==
    [][\A ids \in LinkIds, w \in LinkWorks :
          Link(ids, w)
          => /\ LinkDocuments(work_id', documents', ids, w) = work_id'
             /\ documents' = documents
             /\ works' = works]_vars

\* A relink has consolidated two documents under one work.
C7_Witness ==
    \E d1, d2 \in DOMAIN work_id :
        d1 # d2 /\ work_id[d1] = work_id[d2] /\ work_id[d1] # 0

\* C8 (relink reassigns): after link_documents_to_work(document_ids,
\* work_id) every existing Document whose id is in document_ids has this
\* work_id, every other Document keeps its work_id, and the number of
\* Document rows is unchanged.
C8_LinkAssignsAll ==
    [][\A ids \in LinkIds, w \in LinkWorks :
          Link(ids, w)
          => /\ \A d \in ids \cap (1..Len(documents)) :
                    d \in DOMAIN work_id' /\ work_id'[d] = w
             /\ \A d \in (DOMAIN work_id) \ ids :
                    d \in DOMAIN work_id' /\ work_id'[d] = work_id[d]
             /\ Len(documents') = Len(documents)]_vars

\* Every file run r uploaded has its own new Document row and an initial
\* Work, and the batch created rows for these files only.
Isolated(r) ==
    /\ \A f \in Range(successful_uploads[r]) :
          \E d \in Range(new_documents[r]) :
              /\ documents[d].hash_data = md5(f.content)
              /\ documents[d].s3uri = s3uri(f.name)
              /\ \E w \in 1..Len(works) : works[w].initial_document_id = d
    /\ \A f \in Range(failed_uploads[r]) :
          \A d \in Range(new_documents[r]) : documents[d].s3uri # s3uri(f.name)
    /\ Len(documents) = start[r].documents + Len(successful_uploads[r])
    /\ Len(works) = start[r].works + Len(successful_uploads[r])

Attempts(r) ==
    CASE pc[r] = "idle" -> <<>>
      [] pc[r] = "uploading" -> SubSeq(pdf_files[r], 1, i[r] - 1)
      [] OTHER -> pdf_files[r]

\* C10 (upload_pdfs partitions its input): upload_pdfs goes through every
\* path whatever uploads fail; each path it has attempted is in exactly one
\* of successful_uploads and failed_uploads, both in input order; so with no
\* failure successful_uploads is the input, and with no success
\* failed_uploads is.
C10_UploadPartition ==
    \A r \in Runs :
        LET InSuccessful(f) == f \in Range(successful_uploads[r])
            InFailed(f) == f \in Range(failed_uploads[r])
        IN  /\ successful_uploads[r] = SelectSeq(Attempts(r), InSuccessful)
            /\ failed_uploads[r] = SelectSeq(Attempts(r), InFailed)
            /\ Range(successful_uploads[r]) \cap Range(failed_uploads[r]) = {}
            /\ Range(successful_uploads[r]) \cup Range(failed_uploads[r])
                  = Range(Attempts(r))
            /\ failed_uploads[r] = <<>> => successful_uploads[r] = Attempts(r)
            /\ successful_uploads[r] = <<>> => failed_uploads[r] = Attempts(r)

\* upload_pdfs returned after a failed upload followed by a successful one.
C10_Witness ==
    \E r \in Runs :
        /\ pc[r] = "recording"
        /\ Len(pdf_files[r]) = MaxFiles
        /\ failed_uploads[r] = <<pdf_files[r][1]>>
        /\ successful_uploads[r] = SubSeq(pdf_files[r], 2, MaxFiles)

\* The batch a.pdf, a_copy.pdf, b.pdf on an empty store: a.pdf and a_copy.pdf
\* hold the same bytes, b.pdf has another digest, every upload succeeded.
Scenario(r) ==
    /\ pdf_files[r] \in FullListings
    /\ pdf_files[r][1].content = pdf_files[r][2].content
    /\ md5(pdf_files[r][3].content) # md5(pdf_files[r][1].content)
    /\ start[r] = [documents |-> 0, works |-> 0, provenance |-> 0]
    /\ successful_uploads[r] = pdf_files[r]

\* The row counts of C11, which the code does produce.
ScenarioRows ==
    (pc["r1"] = "done" /\ Scenario("r1"))
    => /\ Len(documents) = 2
       /\ Len(provenance) = 1
       /\ Len(works) = 2
       /\ Len(skipped["r1"]) = 1

\* C11 (scenario): the batch a.pdf, b.pdf, a_copy.pdf on an empty store, where
\* a.pdf and a_copy.pdf are the same bytes and every upload succeeds, ends
\* with 2 Document rows, 1 Provenance row and 2 Work rows, and reports the
\* batch summary uploaded=3, new_documents=2, duplicates_skipped=1.
C11_ScenarioSummary ==
    (pc["r1"] = "done" /\ Scenario("r1"))
    => /\ Len(documents) = 2
       /\ Len(provenance) = 1
       /\ Len(works) = 2
       /\ Reported("r1") = [uploaded |-> 3,
                            new_documents |-> 2,
                            duplicates_skipped |-> 1]

\* The Document row d has its provenance and its initial Work.
Complete(d) ==
    /\ documents[d].provenance_id \in 1..Len(provenance)
    /\ \E w \in 1..Len(works) : works[w].initial_document_id = d

\* C12 (safe restart): a batch interrupted after any committed step and then
\* run again to its end over the same files, every upload succeeding, leaves
\* one Document row per digest of the file set, and each of these rows has a
\* provenance_id and an initial Work.
C12_SafeRestart ==
    (/\ pc["r1"] = "raised"
     /\ pc["r2"] = "done"
     /\ successful_uploads["r2"] = pdf_files["r2"])
    => \A f \in Range(pdf_files["r2"]) :
          /\ Cardinality(RowsWithHash(md5(f.content))) = 1
          /\ \A d \in RowsWithHash(md5(f.content)) : Complete(d)

\* The runs whose create_provenance_record has committed.
Stamped == {r \in Runs : prov[r] # 0}

\* C18 (atomic provenance stamping): every committed Provenance row is the
\* row of a run whose new Documents all carry its id, and a run whose
\* create_provenance_record has not committed, failed or not, has left no
\* Provenance row and no provenance_id on its new Documents.
C18_AtomicStamping ==
    /\ Len(provenance) = Cardinality(Stamped)
    /\ \A r \in Runs :
          \A d \in Range(new_documents[r]) :
              documents[d].provenance_id = prov[r]
    /\ \A r \in Stamped : prov[r] \in 1..Len(provenance)

\* One run failed in create_provenance_record, with a new Document of its
\* own, and the other run has committed its Provenance row.
C18_Witness ==
    /\ pc["r1"] = "raised"
    /\ prov["r1"] = 0
    /\ new_documents["r1"] # <<>>
    /\ Len(new_documents["r1"]) + Len(skipped["r1"])
           = Len(successful_uploads["r1"])
    /\ prov["r2"] # 0
    /\ new_documents["r2"] # <<>>

\* C19 (work and back-reference together): in every committed state each
\* Work row's initial Document has a work_id that refers to this Work.
C19_WorkWithBackReference ==
    \A w \in 1..Len(works) :
        /\ works[w].initial_document_id \in DOMAIN work_id
        /\ work_id[works[w].initial_document_id] = works[w].id

\* The number of items create_document_records has dealt with: inserted, or
\* skipped on the unique index.
Handled(r) == Len(new_documents[r]) + Len(skipped[r])

\* C20 (per-item isolation): once a run has left create_document_records, by
\* its return or by an exception on one item, every other item of its list
\* has a committed Document row of its digest.
C20_ItemIsolation ==
    \A r \in Runs :
        pc[r] \in {"provenance", "linking", "linked", "done", "raised"}
        => \A k \in 1..Len(successful_uploads[r]) :
              k # Handled(r) + 1
              => RowsWithHash(md5(successful_uploads[r][k].content)) # {}

\* The rows of a metrics table refer to committed Provenance rows.
Traceable(rows) ==
    \A k \in 1..Len(rows) : rows[k].provenance_id \in 1..Len(provenance)

\* The OddpubMetrics half of C13, which the code does keep: each row refers
\* to a Provenance row of the oddpub pipeline.
OddpubTraceable ==
    /\ Traceable(oddpub_metrics)
    /\ \A k \in 1..Len(oddpub_metrics) :
          provenance[oddpub_metrics[k].provenance_id].pipeline_name = "oddpub"

\* C13 (metrics provenance): every committed OddpubMetrics row and every
\* committed RTransparentPublication row has a provenance_id that refers to
\* an existing Provenance row.
C13_MetricsProvenance ==
    /\ Traceable(oddpub_metrics)
    /\ Traceable(rtransparent_publication)

\* The call of process_pdfs is over.
CallOver == oddpub.pc \in {"returned", "raised"}

\* C14 (process_pdfs returns its result): when every step of the call has
\* succeeded, up to its "return result", the call has stored the
\* OddpubMetrics row and returns it without raising.
C14_ReturnsStoredRow ==
    (CallOver /\ oddpub.result # 0)
    => /\ oddpub.pc = "returned"
       /\ oddpub.result \in 1..Len(oddpub_metrics)

\* C15 (one row per PDF): after a call of process_pdfs over a folder that
\* holds PDF files, which has stored its result, the number of OddpubMetrics
\* rows it has added is the number of PDF files of the folder.
C15_RowPerPdf ==
    (CallOver /\ oddpub.stored # 0 /\ oddpub.pdf_folder # {})
    => Len(oddpub_metrics) - oddpub.start = Cardinality(oddpub.pdf_folder)

\* The input rows of the committed rtransparent_publication rows, in the
\* order of the table.
Uploaded ==
    [k \in 1..Len(rtransparent_publication) |->
        rtransparent_publication[k].row]

\* C16 (chunked upload): upload_data on L rows with a chunk size n_rows >= 1
\* inserts the L rows, each one once; it commits once per chunk, every chunk
\* has from 1 to n_rows rows, and the chunks are ceil(L / n_rows).
C16_ChunkedUpload ==
    /\ \A c \in 1..Len(rtransparent.commits) :
          rtransparent.commits[c] \in 1..rtransparent.n_rows
    /\ rtransparent.pc = "closed"
       => /\ Uploaded = rtransparent.data
          /\ Len(rtransparent.commits) =
                (Len(rtransparent.data) + rtransparent.n_rows - 1)
                    \div rtransparent.n_rows

\* The upload is over; its chunk size did not divide the number of rows and
\* the last chunk was shorter.
C16_Witness ==
    /\ rtransparent.pc = "closed"
    /\ Len(rtransparent.commits) = 2
    /\ rtransparent.commits[2] < rtransparent.n_rows
    /\ Len(rtransparent_publication) = MaxRows

\* C17 (resumable extraction): no PDF has a second row in the output CSV,
\* and a call that continues when every PDF of pdf_dir has its row gets None
\* from _parse_pdfs.
C17_ResumeSkipsProcessed ==
    /\ \A a, b \in 1..Len(output_csv.rows) :
          output_csv.rows[a].name = output_csv.rows[b].name => a = b
    /\ (extract.returned \in {"None", "pdfs"} /\ extract.processed
        /\ extract.runs > 1)
       => extract.returned = "None"

\* Run r ends in an exception in this step.
Fails(r) == pc[r] # "raised" /\ pc'[r] = "raised"

\* C21 (no global rollback): a step in which a run fails, in
\* create_document_records or later, ends the run with the exception, which
\* no later step takes back, and leaves every committed Document,
\* Provenance and Work row as it was.
C21_FailureKeepsCommitted ==
    /\ [][\A r \in Runs :
            Fails(r) => /\ documents' = documents
                        /\ provenance' = provenance
                        /\ works' = works]_vars
    /\ [][\A r \in Runs : pc[r] = "raised" => pc'[r] = "raised"]_vars

\* The run failed after it had committed two Documents, the Provenance row
\* and the Work of the first Document.
C21_Witness ==
    /\ pc["r1"] = "raised"
    /\ Len(new_documents["r1"]) = 2
    /\ prov["r1"] # 0
    /\ Len(works) = 1

\* The Works whose initial_document_id is the Document d.
WorksOf(d) == {w \in 1..Len(works) : works[w].initial_document_id = d}

\* The Documents the batches have newly created.
Created == UNION {Range(new_documents[r]) : r \in Runs}

\* The Works run r has created: they carry the Provenance of its batch.
WorksBy(r) ==
    {w \in 1..Len(works) : prov[r] # 0 /\ works[w].provenance_id = prov[r]}

C23_InitialDocumentKept ==
    [][/\ Len(works') >= Len(works)
       /\ \A w \in 1..Len(works) :
             works'[w].initial_document_id = works[w].initial_document_id]_vars

\* Both Documents of the batch have been relinked to the second Work, after
\* the Works were created.
C23_Witness ==
    /\ Len(works) = 2
    /\ pc["r1"] = "done"
    /\ \A d \in 1..Len(documents) : d \in DOMAIN work_id /\ work_id[d] = 2

\* C24 (relink leaves the works table): a call of link_documents_to_work
\* creates, deletes and rewrites no Work row.
C24_LinkKeepsWorks ==
    [][(\E ids \in SUBSET (1..(Len(documents) + 1)),
           id \in 0..(Len(works) + 1) : Link(ids, id))
       => works' = works]_vars

\* A stale Work: the Document it was created for is linked to another Work
\* and no Document refers to it.
C24_Witness ==
    \E w \in 1..Len(works) :
        /\ works[w].initial_document_id \in DOMAIN work_id
        /\ work_id[works[w].initial_document_id] \in 1..Len(works)
        /\ \A d \in DOMAIN work_id : work_id[d] # w

\* C25 (Provenance append-only): no step of an upload batch, of a relink or
\* of a metrics run removes a Provenance row or changes a field of one; the
\* table only grows.
C25_ProvenanceAppendOnly ==
    [][/\ Len(provenance') >= Len(provenance)
       /\ \A k \in 1..Len(provenance) : provenance'[k] = provenance[k]]_vars

\* The oddpub run and then the batch have each added their Provenance row,
\* and a relink has taken a Document of the batch off its Work.
C25_Witness ==
    /\ Len(provenance) = 2
    /\ provenance[1].pipeline_name = "oddpub"
    /\ provenance[2].pipeline_name = "Document Upload"
    /\ pc["r1"] = "done"
    /\ \E d \in DOMAIN work_id : work_id[d] = 0

\* C26 (stored content immutable): for every committed Document row, the
\* blob at its s3uri has the digest that is the row's hash_data, whatever
\* later batches have uploaded.
C26_BlobMatchesHash ==
    \A d \in 1..Len(documents) :
        /\ s3[KeyName(documents[d].s3uri)] # NoContent
        /\ md5(s3[KeyName(documents[d].s3uri)]) = documents[d].hash_data

\* C27 (all-duplicates batch has no side effect): when the second batch has
\* uploaded only files whose bytes the first batch had ingested, it has
\* written no row and the blob store is as the first batch left it.
C27_DuplicateBatchKeepsBlobs ==
    (/\ pc["r1"] = "done"
     /\ pc["r2"] = "done"
     /\ successful_uploads["r1"] = pdf_files["r1"]
     /\ successful_uploads["r2"] = pdf_files["r2"]
     /\ ContentsOf(pdf_files["r2"]) \subseteq ContentsOf(pdf_files["r1"]))
    => /\ Len(documents) = start["r2"].documents
       /\ Len(provenance) = start["r2"].provenance
       /\ Len(works) = start["r2"].works
       /\ s3 = BlobsOf("r1")

\* C28 (phase order): in each batch, no Document is inserted before every
\* upload was attempted; the Provenance row is inserted after the last
\* Document insert of the batch and only when the batch has a new Document;
\* a Work is inserted only after the Provenance row is committed; and Done is
\* reached only when every new Document of the batch has its initial Work.
C28_PhaseOrder ==
    \A r \in Runs :
        /\ pc[r] \in {"idle", "uploading"}
           => Handled(r) = 0 /\ prov[r] = 0 /\ work[r] = 0
        /\ Handled(r) > 0
           => Len(successful_uploads[r]) + Len(failed_uploads[r])
                  = Len(pdf_files[r])
        /\ pc[r] = "recording" => prov[r] = 0 /\ work[r] = 0
        /\ prov[r] # 0
           => /\ new_documents[r] # <<>>
              /\ Handled(r) = Len(successful_uploads[r])
        /\ work[r] # 0
           => /\ prov[r] \in 1..Len(provenance)
              /\ works[work[r]].provenance_id = prov[r]
        /\ pc[r] = "done"
           => \A d \in Range(new_documents[r]) : WorksOf(d) # {}

\* A batch has gone through all phases: an upload failed, a Document was
\* created and the batch is done.
C28_Witness ==
    /\ pc["r1"] = "done"
    /\ failed_uploads["r1"] # <<>>
    /\ new_documents["r1"] # <<>>
    /\ work["r1"] # 0

\* C29 (referential integrity): every non-null work_id of a Document,
\* initial_document_id and primary_document_id of a Work, and provenance_id
\* of a Document or a Work refers to an existing row, also after a call of
\* link_documents_to_work with a work_id that names no Work.
C29_ReferentialIntegrity ==
    /\ \A d \in DOMAIN work_id : work_id[d] \in 0..Len(works)
    /\ \A w \in 1..Len(works) :
          /\ works[w].initial_document_id \in 1..Len(documents)
          /\ works[w].primary_document_id \in 1..Len(documents)
          /\ works[w].provenance_id \in 1..Len(provenance)
    /\ \A d \in 1..Len(documents) :
          documents[d].provenance_id \in 0..Len(provenance)

\* The references held in table columns, which C29 does keep.
ColumnIntegrity ==
    /\ \A w \in 1..Len(works) :
          /\ works[w].initial_document_id \in 1..Len(documents)
          /\ works[w].primary_document_id \in 1..Len(documents)
          /\ works[w].provenance_id \in 1..Len(provenance)
    /\ \A d \in 1..Len(documents) :
          documents[d].provenance_id \in 0..Len(provenance)

\* The Provenance rows of the oddpub pipeline.
OddpubRows ==
    {k \in 1..Len(provenance) : provenance[k].pipeline_name = "oddpub"}

====
